---------------------------- MODULE Spec2Model ----------------------------
(***************************************************************************)
(* A model of ogr2bqjson.py: the column type inference of                  *)
(* get_column_type, the row streaming of geojson_to_ndjson, the safe path  *)
(* generation of get_safe_filepath and the orchestration of main,          *)
(* convert_all, convert_to_ndjson and save_schema_files.                   *)
(***************************************************************************)
EXTENDS Integers, Sequences, FiniteSets, TLC

(***************************************************************************)
(* Bounds of the model.                                                    *)
(***************************************************************************)
\* longest sequence of values fed to one column
MaxValues == 4
\* most lines of one GeoJSONSeq file
MaxRecords == 2
\* most successive calls of get_safe_filepath on one initial path
MaxCalls == 3

(***************************************************************************)
(* Python values of a GeoJSON property: None, str, int, float, bool.       *)
(* kind is the value's class; bool is a subclass of int in Python.         *)
(***************************************************************************)
None == [kind |-> "NoneType", repr |-> "null"]

PropertyValues ==
  { None,
    [kind |-> "str",   repr |-> "n/a"],
    [kind |-> "int",   repr |-> "5"],
    [kind |-> "float", repr |-> "7.5"],
    [kind |-> "bool",  repr |-> "true"] }

\* isinstance(value, cls) for the classes get_column_type asks about
isinstance(value, cls) ==
  \/ value.kind = cls
  \/ value.kind = "bool" /\ cls = "int"

\* schema.get(key) of a key that is not in the schema
NoType == "None"

\* the classification of one value, lines 621-631: the if / elif chain
classify(value) ==
  IF isinstance(value, "str") THEN "STRING"
  ELSE IF isinstance(value, "int") THEN "INTEGER"
  ELSE IF isinstance(value, "float") THEN "FLOAT"
  ELSE IF isinstance(value, "bool") THEN "BOOLEAN"
  ELSE "UNKNOWN"

\* merge without the STRING branch of line 634
merge_no_string_branch(last_type, column_type) ==
  IF last_type # NoType /\ last_type # column_type
  THEN IF last_type = "FLOAT" /\ column_type = "INTEGER" THEN "FLOAT"
       ELSE column_type
  ELSE column_type

\* merge without the FLOAT branch of line 636
merge_no_float_branch(last_type, column_type) ==
  IF last_type # NoType /\ last_type # column_type
  THEN IF last_type = "STRING" THEN "STRING"
       ELSE column_type
  ELSE column_type

\* the merge with the previous type, lines 633-637
merge(last_type, column_type) ==
  IF last_type # NoType /\ last_type # column_type
  THEN IF last_type = "STRING" THEN "STRING"
       ELSE IF last_type = "FLOAT" /\ column_type = "INTEGER" THEN "FLOAT"
       ELSE column_type
  ELSE column_type

get_column_type(value, last_type) == merge(last_type, classify(value))

(***************************************************************************)
(* Python dicts keep their keys in insertion order: a dict is the sequence *)
(* of its [key, value] items.                                              *)
(***************************************************************************)
EmptyDict == <<>>

DictKeys(d) == { d[i].key : i \in 1..Len(d) }

\* d[key] of a key that is in d
DictGet(d, key) == d[CHOOSE i \in 1..Len(d) : d[i].key = key].value

\* d[key] = value: a new key goes to the end, an old one keeps its place
DictSet(d, key, value) ==
  IF key \in DictKeys(d)
  THEN [i \in 1..Len(d) |->
          IF d[i].key = key THEN [key |-> key, value |-> value] ELSE d[i]]
  ELSE Append(d, [key |-> key, value |-> value])

(***************************************************************************)
(* json.dumps with its default separators, on the values of the model: a   *)
(* scalar carries its JSON text in repr, a list its items, a dict its      *)
(* [key, value] items.                                                     *)
(***************************************************************************)
PyStr(text) == [kind |-> "str", repr |-> text]
PyInt(text) == [kind |-> "int", repr |-> text]
PyList(items) == [kind |-> "list", items |-> items]
PyDict(items) == [kind |-> "dict", items |-> items]

RECURSIVE dumps(_)
RECURSIVE dumps_items(_, _, _)
\* the items of a list or dict from the i-th on, joined with ", "
dumps_items(items, i, is_dict) ==
  IF i > Len(items) THEN ""
  ELSE (IF i > 1 THEN ", " ELSE "")
       \o (IF is_dict
           THEN "\"" \o items[i].key \o "\": " \o dumps(items[i].value)
           ELSE dumps(items[i]))
       \o dumps_items(items, i + 1, is_dict)

dumps(value) ==
  CASE value.kind = "str"  -> "\"" \o value.repr \o "\""
    [] value.kind = "list" -> "[" \o dumps_items(value.items, 1, FALSE) \o "]"
    [] value.kind = "dict" -> "{" \o dumps_items(value.items, 1, TRUE) \o "}"
    [] OTHER               -> value.repr

(***************************************************************************)
(* The lines of a GeoJSONSeq file, as ndjson.loads parses them: a Feature  *)
(* dict, or a line that makes ndjson.loads(line)[0] raise.                 *)
(***************************************************************************)
Malformed == [kind |-> "malformed"]

Point ==
  PyDict(<< [key |-> "type", value |-> PyStr("Point")],
          [key |-> "coordinates", value |-> PyList(<<PyInt("1"), PyInt("2")>>)] >>)

\* the geometry member of a Feature: null or an object
Geometries == { None, Point }

\* the properties of a Feature: "g" is also a name a column may be given
PropertyDicts ==
  { <<>> }
  \cup { << [key |-> "pop", value |-> v] >> : v \in {None, PyInt("5")} }
  \cup { << [key |-> "g", value |-> PyInt("5")] >> }
  \cup { << [key |-> "pop", value |-> v], [key |-> "g", value |-> PyInt("5")] >> :
           v \in {None, PyInt("5")} }

Features ==
  { PyDict(<< [key |-> "type", value |-> PyStr("Feature")],
            [key |-> "properties", value |-> PyDict(p)],
            [key |-> "geometry", value |-> g] >>) :
      p \in PropertyDicts, g \in Geometries }
  \cup
  { PyDict(<< [key |-> "type", value |-> PyStr("Feature")],
            [key |-> "properties", value |-> PyDict(p)] >>) : p \in PropertyDicts }

Lines == Features \cup { Malformed }

(***************************************************************************)
(* The --columns argument after json.loads: a JSON array or a JSON object. *)
(* The order of an array does not reach the result of get_columns, which   *)
(* geojson_to_ndjson reads by key only: an array is the set of its items   *)
(* and a dict of columns a function from its keys.                         *)
(***************************************************************************)
default_column_names == {"geometry", "geojson", "geojson_geometry"}

ColumnNames ==
  [ geometry |-> {"geometry", "g"},
    geojson |-> {"geojson", "g"},
    geojson_geometry |-> {"geom_json", "g"} ]

ColumnsArgs ==
  { [kind |-> "list", items |-> items] :
      items \in SUBSET (default_column_names \cup {"foo"}) }
  \cup
  { [kind |-> "dict", items |-> f] :
      f \in UNION { { g \in [keys -> {"geometry", "geojson", "geom_json", "g"}] :
                        \A k \in keys : g[k] \in ColumnNames[k] } :
                    keys \in SUBSET default_column_names } }

NoColumns == [k \in {} |-> ""]

\* get_columns lines 407-417: no item of a non-empty array is a column key,
\* and get_columns returns False
get_columns_is_False(user_columns) ==
  /\ user_columns.kind = "list"
  /\ user_columns.items # {}
  /\ user_columns.items \cap default_column_names = {}

\* get_columns lines 401-418, when it returns a dict
get_columns(user_columns) ==
  IF user_columns.kind = "dict" THEN user_columns.items
  ELSE [column \in user_columns.items \cap default_column_names |-> column]

(***************************************************************************)
(* Paths are Python strings: sequences of characters.                      *)
(***************************************************************************)
\* p.rfind(c), counting from 1: 0 when c is not in p
rfind(p, c) ==
  IF \E i \in 1..Len(p) : p[i] = c
  THEN CHOOSE i \in 1..Len(p) : p[i] = c /\ \A j \in (i + 1)..Len(p) : p[j] # c
  ELSE 0

\* os.path.splitext: the extension starts at the last dot of the last
\* component, unless only dots come before it in that component
splitext(p) ==
  LET sepIndex == rfind(p, "/")
      dotIndex == rfind(p, ".")
  IN IF /\ dotIndex > sepIndex
        /\ \E j \in (sepIndex + 1)..(dotIndex - 1) : p[j] # "."
     THEN << SubSeq(p, 1, dotIndex - 1), SubSeq(p, dotIndex, Len(p)) >>
     ELSE << p, <<>> >>

DigitChars == << "0", "1", "2", "3", "4", "5", "6", "7", "8", "9" >>

RECURSIVE decimal(_)
\* str(i) of an i >= 0
decimal(i) ==
  IF i < 10 THEN << DigitChars[i + 1] >>
  ELSE decimal(i \div 10) \o << DigitChars[(i % 10) + 1] >>

\* f'{i}': the number without the zero padding
format_no_padding(i) == decimal(i)

\* f'{i:02d}'
format_02d(i) ==
  IF Len(decimal(i)) < 2 THEN << "0" >> \o decimal(i) ELSE decimal(i)

\* is_output_file_safe, line 349; files are the paths that exist
is_output_file_safe(filepath, can_overwrite, files) ==
  can_overwrite \/ filepath \notin files

RECURSIVE safe_loop(_, _, _, _, _, _)
\* the while loop of lines 509-511
safe_loop(filepath, i, path_root, extension, can_overwrite, files) ==
  IF is_output_file_safe(filepath, can_overwrite, files) THEN filepath
  ELSE safe_loop(path_root \o << "_" >> \o format_02d(i + 1) \o extension,
                 i + 1, path_root, extension, can_overwrite, files)

\* get_safe_filepath trying one suffix only
get_safe_filepath_one_try(initial_filepath, can_overwrite, is_candidate, files) ==
  LET path_root == splitext(initial_filepath)[1]
      extension == splitext(initial_filepath)[2]
      first == path_root \o << "_", "0", "1" >> \o extension
  IN IF ~is_candidate THEN first
     ELSE IF is_output_file_safe(initial_filepath, can_overwrite, files)
     THEN initial_filepath
     ELSE first

\* get_safe_filepath, lines 503-513
get_safe_filepath(initial_filepath, can_overwrite, is_candidate, files) ==
  LET path_root == splitext(initial_filepath)[1]
      extension == splitext(initial_filepath)[2]
  IN IF ~is_candidate
     THEN safe_loop(path_root \o << "_", "0", "1" >> \o extension, 1,
                    path_root, extension, can_overwrite, files)
     ELSE safe_loop(initial_filepath, 0, path_root, extension, can_overwrite,
                    files)

(***************************************************************************)
(* The initial paths and file systems get_safe_filepath is tried on: the   *)
(* first k suffixed paths exist, less one of them or the initial path, and *)
(* one more beyond a gap.                                                  *)
(***************************************************************************)
InitialPaths ==
  { << "a", ".", "j" >>,
    << "a" >>,
    << ".", "a" >>,
    << "d", ".", "x", "/", "a" >>,
    << "a", "_", "0", "1", ".", "j" >> }

\* how many suffixed paths exist at the start
PrefillCounts == {0, 1, 2, 9, 98, 99, 100}

suffixed(initial_filepath, n) ==
  splitext(initial_filepath)[1] \o << "_" >> \o format_02d(n)
    \o splitext(initial_filepath)[2]

NoPath == << >>

FileSystems(initial_filepath) ==
  UNION {
    { (({initial_filepath}
          \cup { suffixed(initial_filepath, n) : n \in 1..k }) \ {hole})
        \cup beyond :
      hole \in {NoPath, initial_filepath, suffixed(initial_filepath, 1),
                suffixed(initial_filepath, 2)},
      beyond \in SUBSET { suffixed(initial_filepath, k + 2) } } :
    k \in PrefillCounts }

(***************************************************************************)
(* posixpath on the paths of the model.                                    *)
(***************************************************************************)
\* os.path.basename
basename(p) == SubSeq(p, rfind(p, "/") + 1, Len(p))

RECURSIVE rstrip_slash(_)
rstrip_slash(p) ==
  IF p # << >> /\ p[Len(p)] = "/" THEN rstrip_slash(SubSeq(p, 1, Len(p) - 1))
  ELSE p

\* os.path.dirname: the head up to the last slash, without its trailing
\* slashes unless it is made of slashes only
dirname(p) ==
  LET head == SubSeq(p, 1, rfind(p, "/"))
  IN IF \E i \in 1..Len(head) : head[i] # "/" THEN rstrip_slash(head)
     ELSE head

\* os.path.join of two parts
join(a, b) ==
  IF b # << >> /\ b[1] = "/" THEN b
  ELSE IF a = << >> \/ a[Len(a)] = "/" THEN a \o b
  ELSE a \o << "/" >> \o b

\* p.endswith('/') and p.startswith('.')
endswith_slash(p) == p # << >> /\ p[Len(p)] = "/"
startswith_dot(p) == p # << >> /\ p[1] = "."

\* get_path_parts(path)['filename_root'], line 244
filename_root(path) == splitext(basename(path))[1]

\* get_output_filepath, lines 723-726; output_directory is NoPath for None
get_output_filepath(source_filepath, extension, can_overwrite, output_directory, paths) ==
  LET directory == IF output_directory # NoPath THEN output_directory
                   ELSE dirname(source_filepath)
      filepath == join(directory, filename_root(source_filepath) \o extension)
  IN get_safe_filepath(filepath, can_overwrite, TRUE, paths)

(***************************************************************************)
(* The command lines and file systems main is run on.  The source is the   *)
(* file s/a.shp or the directory s, which holds a.shp, b.shp and c.txt;    *)
(* the output directory o exists or not; the files a conversion writes     *)
(* exist already or not.                                                   *)
(***************************************************************************)
Dir_s == << "s" >>
Dir_s_slash == << "s", "/" >>
Dir_o == << "o" >>
File_a_shp == << "s", "/", "a", ".", "s", "h", "p" >>
File_b_shp == << "s", "/", "b", ".", "s", "h", "p" >>
File_c_txt == << "s", "/", "c", ".", "t", "x", "t" >>
Out_x_json == << "o", "/", "x", ".", "j", "s", "o", "n" >>
Ext_shp == << "s", "h", "p" >>
Ext_json == << ".", "j", "s", "o", "n" >>
Ext_geojson == << ".", "g", "e", "o", "j", "s", "o", "n" >>
Suffix_GeoJSONSeq == << "_", "G", "e", "o", "J", "S", "O", "N", "S", "e", "q" >>
Suffix_SCHEMA_json == << "_", "S", "C", "H", "E", "M", "A", ".", "j", "s", "o", "n" >>
Suffix_SCHEMA_txt == << "_", "S", "C", "H", "E", "M", "A", ".", "t", "x", "t" >>

SourceFiles == { File_a_shp, File_b_shp, File_c_txt }

\* a path at which nothing exists
File_m_shp == << "s", "/", "m", ".", "s", "h", "p" >>

\* the files gdal.OpenEx opens
GeoFiles == { File_a_shp, File_b_shp }

\* the source and extension arguments
SourceArgs ==
  { [source |-> File_a_shp,  extension |-> NoPath],
    [source |-> Dir_s_slash, extension |-> Ext_shp],
    [source |-> Dir_s,       extension |-> Ext_shp],
    [source |-> File_a_shp,  extension |-> Ext_shp],
    [source |-> Dir_s_slash, extension |-> NoPath],
    [source |-> NoPath,      extension |-> NoPath],
    [source |-> File_m_shp,  extension |-> NoPath],
    [source |-> File_c_txt,  extension |-> NoPath] }

reserved_convert_options == { << "-", "f" >>, << "-", "o", "f" >>, << "-", "t", "_", "s", "r", "s" >> }

\* the --convert_options argument
ConvertOptions == { << >>, << "-", "s", "q", "l", " ", "q" >>, << "-", "t", "_", "s", "r", "s", " ", "x" >>, << "-", "f", " ", "x" >>, << "-", "o", "f", " ", "x" >> }

\* option in convert_options: the test for a substring
contains(text, option) ==
  \E i \in 0..(Len(text) - Len(option)) :
    SubSeq(text, i + 1, i + Len(option)) = option

Args ==
  { [ source |-> sa.source, extension |-> sa.extension,
      force_overwrite |-> f, keep_geojsonseq |-> k, skip_schemas |-> sk,
      create_parents |-> p, output_directory |-> d, output_filepath |-> o,
      convert_options |-> v ] :
    sa \in SourceArgs, f \in BOOLEAN, k \in BOOLEAN, sk \in BOOLEAN,
    p \in BOOLEAN, d \in {NoPath, Dir_o}, o \in {NoPath, Out_x_json},
    v \in ConvertOptions }

\* the paths without extension the outputs of a run are named after
OutputRoots == { << "s", "/", "a" >>, << "s", "/", "b" >>, << "o", "/", "a" >>, << "o", "/", "b" >>, << "o", "/", "x" >> }

\* which of the outputs exist before the run
ExistingOutputs ==
  { {},
    { Ext_json },
    { Suffix_SCHEMA_txt },
    { Ext_json, Suffix_SCHEMA_json, Suffix_SCHEMA_txt,
      Suffix_GeoJSONSeq \o Ext_geojson } }

OldContent == [kind |-> "old", of |-> NoPath]
SourceContent == [kind |-> "source", of |-> NoPath]

\* the files of a file system: a function from their paths to their content
InitialDisk(existing, dirs0) ==
  LET old == { root \o suffix : root \in OutputRoots, suffix \in existing }
      kept == { p \in old : dirname(p) \in dirs0 }
  IN [ p \in SourceFiles \cup kept |->
         IF p \in SourceFiles THEN SourceContent ELSE OldContent ]

\* os.path.exists
exists(p, fdisk, fdirs) == p \in DOMAIN fdisk \/ rstrip_slash(p) \in fdirs

\* the paths that exist
existing_paths(fdisk, fdirs) ==
  DOMAIN fdisk \cup fdirs \cup { d \o << "/" >> : d \in fdirs }

(***************************************************************************)
(* State.                                                                  *)
(***************************************************************************)
VARIABLES
  seen,         \* the values one column held in the Records read so far
  col_type,     \* schema.get(key) of that column
  conv_pc,      \* where the conversion of one GeoJSONSeq file is
  columns_arg,  \* the parsed --columns argument
  columns,      \* the dict get_columns returns
  lines_read,   \* the lines of the GeoJSONSeq file read so far
  rows,         \* geojson_to_ndjson's rows
  schema,       \* geojson_to_ndjson's schema
  output_file,  \* the content of the file at output_filepath
  schema_text,  \* save_schema_files' schema_text, character by character
  unknown_columns, \* save_schema_files' unknown_columns
  path_pc,      \* where the calls of get_safe_filepath are
  files,        \* the paths that exist
  initial_filepath, \* the initial path of the calls
  is_candidate, \* the is_candidate argument of the last call
  results,      \* the paths the successive calls returned
  reapplied,    \* get_safe_filepath of the last result
  main_pc,      \* where the run of main is
  args,         \* the parsed command line
  is_wgs84,     \* is_wgs84_geojsonseq of the source files
  bad_rows,     \* the source files whose Records make geojson_to_ndjson raise
  dirs,         \* the directories that exist
  disk,         \* the files that exist, with their content
  answer,       \* the last answer to the prompt
  remaining,    \* the files of the directory still to convert
  cur,          \* the file being converted and its paths
  written       \* the files written so far, in order

typeVars == <<seen, col_type>>
convVars == <<conv_pc, columns_arg, columns, lines_read, rows, schema,
              output_file, schema_text, unknown_columns>>
pathVars == <<path_pc, files, initial_filepath, is_candidate, results,
              reapplied>>
mainVars == <<main_pc, args, is_wgs84, bad_rows, dirs, disk, answer,
              remaining, cur, written>>
vars == <<seen, col_type, conv_pc, columns_arg, columns, lines_read, rows,
          schema, output_file, schema_text, unknown_columns, path_pc, files, initial_filepath,
          is_candidate, results, reapplied, main_pc, args, is_wgs84,
          bad_rows, dirs, disk, answer, remaining, cur, written>>

\* no file at a path
NoFile == "no file"

TypeIdle == seen = <<>> /\ col_type = NoType

ConvIdle ==
  /\ conv_pc = "idle"
  /\ columns_arg = [kind |-> "list", items |-> {}]
  /\ columns = NoColumns
  /\ lines_read = <<>>
  /\ rows = <<>>
  /\ schema = EmptyDict
  /\ output_file = NoFile
  /\ schema_text = <<>>
  /\ unknown_columns = <<>>

PathIdle ==
  /\ path_pc = "idle"
  /\ files = {}
  /\ initial_filepath = NoPath
  /\ is_candidate = TRUE
  /\ results = <<>>
  /\ reapplied = NoPath

NoFileInHand ==
  [source |-> NoPath, output_filepath |-> NoPath, temp_filepath |-> NoPath]

MainIdle ==
  /\ main_pc = "idle"
  /\ args = [source |-> NoPath]
  /\ is_wgs84 = FALSE
  /\ bad_rows = {}
  /\ dirs = {}
  /\ disk = << >>
  /\ answer = "none"
  /\ remaining = {}
  /\ cur = NoFileInHand
  /\ written = << >>

(***************************************************************************)
(* SpecType: one property column across the Records of one conversion,     *)
(* geojson_to_ndjson lines 573-576.                                        *)
(***************************************************************************)
TypeInit ==
  /\ seen = <<>>
  /\ col_type = NoType
  /\ ConvIdle
  /\ PathIdle
  /\ MainIdle

ReadValue ==
  \E value \in PropertyValues :
    /\ Len(seen) < MaxValues
    /\ seen' = Append(seen, value)
    /\ col_type' = get_column_type(value, col_type)
    /\ UNCHANGED <<convVars, pathVars, mainVars>>

TypeNext == ReadValue

SpecType == TypeInit /\ [][TypeNext]_vars

(***************************************************************************)
(* SpecConv: get_columns, then geojson_to_ndjson on the lines of one       *)
(* GeoJSONSeq file.                                                        *)
(***************************************************************************)
ConvInit ==
  /\ TypeIdle
  /\ PathIdle
  /\ MainIdle
  /\ conv_pc = "args"
  /\ columns_arg \in ColumnsArgs
  /\ columns = NoColumns
  /\ lines_read = <<>>
  /\ rows = <<>>
  /\ schema = EmptyDict
  /\ output_file \in {NoFile, "old content"}
  /\ schema_text = <<>>
  /\ unknown_columns = <<>>

\* main lines 28-31
GetColumns ==
  /\ conv_pc = "args"
  /\ IF get_columns_is_False(columns_arg)
     THEN conv_pc' = "exit" /\ UNCHANGED columns
     ELSE conv_pc' = "reading" /\ columns' = get_columns(columns_arg)
  /\ UNCHANGED <<columns_arg, lines_read, rows, schema, output_file>>
  /\ UNCHANGED <<schema_text, unknown_columns>>
  /\ UNCHANGED <<typeVars, pathVars, mainVars>>

\* the schema after the properties of one Record, lines 573-576
RECURSIVE schema_after(_, _, _)
schema_after(sch, properties, i) ==
  IF i > Len(properties) THEN sch
  ELSE LET key == properties[i].key
           value == properties[i].value
           last_type == IF key \in DictKeys(sch) THEN DictGet(sch, key)
                        ELSE NoType
       IN schema_after(DictSet(sch, key, get_column_type(value, last_type)),
                       properties, i + 1)

\* the row of one Record before its geometry-derived fields, lines 573-575
RECURSIVE row_properties(_, _, _)
row_properties(row, properties, i) ==
  IF i > Len(properties) THEN row
  ELSE row_properties(DictSet(row, properties[i].key, properties[i].value),
                      properties, i + 1)

\* line_item.get('properties', {})
properties_of(line_item) ==
  IF "properties" \in DictKeys(line_item.items)
  THEN DictGet(line_item.items, "properties").items
  ELSE EmptyDict

\* lines 578-583 raise KeyError on a Record without a geometry member
raises_KeyError(line_item) ==
  /\ "geometry" \notin DictKeys(line_item.items)
  /\ \/ "geometry" \in DOMAIN columns
     \/ "geojson_geometry" \in DOMAIN columns

\* row_geo writing the geometry field whatever the configuration
row_geo_always_geometry(row, line_item) ==
  LET r1 == IF "geometry" \in DictKeys(line_item.items)
            THEN DictSet(row,
                         IF "geometry" \in DOMAIN columns
                         THEN columns["geometry"] ELSE "geometry",
                         PyStr(dumps(DictGet(line_item.items, "geometry"))))
            ELSE row
      r2 == IF "geojson" \in DOMAIN columns
            THEN DictSet(r1, columns["geojson"], PyStr(dumps(line_item)))
            ELSE r1
      r3 == IF "geojson_geometry" \in DOMAIN columns
            THEN DictSet(r2, columns["geojson_geometry"],
                         PyStr(dumps(DictGet(line_item.items, "geometry"))))
            ELSE r2
  IN r3

\* lines 578-583: the geometry-derived fields of a row
row_geo(row, line_item) ==
  LET r1 == IF "geometry" \in DOMAIN columns
            THEN DictSet(row, columns["geometry"],
                         PyStr(dumps(DictGet(line_item.items, "geometry"))))
            ELSE row
      r2 == IF "geojson" \in DOMAIN columns
            THEN DictSet(r1, columns["geojson"], PyStr(dumps(line_item)))
            ELSE r1
      r3 == IF "geojson_geometry" \in DOMAIN columns
            THEN DictSet(r2, columns["geojson_geometry"],
                         PyStr(dumps(DictGet(line_item.items, "geometry"))))
            ELSE r2
  IN r3

\* one pass of the loop of lines 568-584
\* ReadLine with the Record that raises skipped instead
ReadLine_skips ==
  \E line \in Lines :
    /\ conv_pc = "reading"
    /\ Len(lines_read) < MaxRecords
    /\ lines_read' = Append(lines_read, line)
    /\ IF line = Malformed
       THEN /\ conv_pc' = "reading"
            /\ UNCHANGED <<rows, schema>>
       ELSE IF raises_KeyError(line)
       THEN /\ conv_pc' = "reading"
            /\ schema' = schema_after(schema, properties_of(line), 1)
            /\ UNCHANGED rows
       ELSE /\ conv_pc' = "reading"
            /\ schema' = schema_after(schema, properties_of(line), 1)
            /\ rows' = Append(rows,
                 row_geo(row_properties(EmptyDict, properties_of(line), 1),
                         line))
    /\ UNCHANGED <<columns_arg, columns, output_file>>
    /\ UNCHANGED <<schema_text, unknown_columns>>
    /\ UNCHANGED <<typeVars, pathVars, mainVars>>

ReadLine ==
  \E line \in Lines :
    /\ conv_pc = "reading"
    /\ Len(lines_read) < MaxRecords
    /\ lines_read' = Append(lines_read, line)
    /\ IF line = Malformed
       THEN \* ndjson.loads(line)[0] raises
            /\ conv_pc' = "failed"
            /\ UNCHANGED <<rows, schema>>
       ELSE IF raises_KeyError(line)
       THEN \* the properties of the Record are already in the schema
            /\ conv_pc' = "failed"
            /\ schema' = schema_after(schema, properties_of(line), 1)
            /\ UNCHANGED rows
       ELSE /\ conv_pc' = "reading"
            /\ schema' = schema_after(schema, properties_of(line), 1)
            /\ rows' = Append(rows,
                 row_geo(row_properties(EmptyDict, properties_of(line), 1),
                         line))
    /\ UNCHANGED <<columns_arg, columns, output_file>>
    /\ UNCHANGED <<schema_text, unknown_columns>>
    /\ UNCHANGED <<typeVars, pathVars, mainVars>>

\* schema_geo keeping the type a property of the same name was given
schema_geo_keeps_inferred(sch) ==
  LET put(d, key, type) == IF key \in DictKeys(d) THEN d
                           ELSE DictSet(d, key, type)
      s1 == IF "geometry" \in DOMAIN columns
            THEN put(sch, columns["geometry"], "GEOGRAPHY") ELSE sch
      s2 == IF "geojson" \in DOMAIN columns
            THEN put(s1, columns["geojson"], "STRING") ELSE s1
      s3 == IF "geojson_geometry" \in DOMAIN columns
            THEN put(s2, columns["geojson_geometry"], "STRING") ELSE s2
  IN s3

\* lines 586-591: the fixed types of the geometry-derived columns
schema_geo(sch) ==
  LET s1 == IF "geometry" \in DOMAIN columns
            THEN DictSet(sch, columns["geometry"], "GEOGRAPHY") ELSE sch
      s2 == IF "geojson" \in DOMAIN columns
            THEN DictSet(s1, columns["geojson"], "STRING") ELSE s1
      s3 == IF "geojson_geometry" \in DOMAIN columns
            THEN DictSet(s2, columns["geojson_geometry"], "STRING") ELSE s2
  IN s3

\* the end of the file: lines 586-596
EndOfFile ==
  /\ conv_pc = "reading"
  /\ schema' = schema_geo(schema)
  /\ output_file' = rows
  /\ conv_pc' = "done"
  /\ UNCHANGED <<columns_arg, columns, lines_read, rows>>
  /\ UNCHANGED <<schema_text, unknown_columns>>
  /\ UNCHANGED <<typeVars, pathVars, mainVars>>

\* the characters of a column name or of a type, for the text of the
\* plaintext schema file
characters ==
  [ s \in {"pop", "g", "geometry", "geojson", "geojson_geometry",
            "geom_json", "UNKNOWN", "STRING", "INTEGER", "FLOAT", "BOOLEAN",
            "GEOGRAPHY"} |->
      CASE s = "pop" -> << "p", "o", "p" >>
        [] s = "g" -> << "g" >>
        [] s = "geometry" -> << "g", "e", "o", "m", "e", "t", "r", "y" >>
        [] s = "geojson" -> << "g", "e", "o", "j", "s", "o", "n" >>
        [] s = "geojson_geometry" -> << "g", "e", "o", "j", "s", "o", "n", "_", "g", "e", "o", "m", "e", "t", "r", "y" >>
        [] s = "geom_json" -> << "g", "e", "o", "m", "_", "j", "s", "o", "n" >>
        [] s = "UNKNOWN" -> << "U", "N", "K", "N", "O", "W", "N" >>
        [] s = "STRING" -> << "S", "T", "R", "I", "N", "G" >>
        [] s = "INTEGER" -> << "I", "N", "T", "E", "G", "E", "R" >>
        [] s = "FLOAT" -> << "F", "L", "O", "A", "T" >>
        [] s = "BOOLEAN" -> << "B", "O", "O", "L", "E", "A", "N" >>
        [] s = "GEOGRAPHY" -> << "G", "E", "O", "G", "R", "A", "P", "H", "Y" >> ]

\* lines 789-794: schema_text and unknown_columns after the first i keys of
\* the schema
RECURSIVE schema_text_loop(_, _)
schema_text_loop(sch, i) ==
  IF i = 0 THEN [text |-> <<>>, unknown |-> <<>>]
  ELSE LET before == schema_text_loop(sch, i - 1)
           key == sch[i].key
       IN [ text |-> before.text \o characters[key] \o <<":">>
                       \o characters[sch[i].value] \o <<",", "\n">>,
            unknown |-> IF sch[i].value = "UNKNOWN"
                        THEN Append(before.unknown, key)
                        ELSE before.unknown ]

\* the slice text[:-1]
without_last_one(text) ==
  IF Len(text) <= 1 THEN <<>> ELSE SubSeq(text, 1, Len(text) - 1)

\* line 797: the slice schema_text[:-2]
without_last_two(text) ==
  IF Len(text) <= 2 THEN <<>> ELSE SubSeq(text, 1, Len(text) - 2)

\* save_schema_files lines 789-799 on the schema geojson_to_ndjson returned:
\* the text written to the plaintext file and the columns of the warning
SaveSchemaFiles ==
  /\ conv_pc = "done"
  /\ LET end == schema_text_loop(schema, Len(schema))
     IN /\ schema_text' = without_last_two(end.text)
        /\ unknown_columns' = end.unknown
  /\ conv_pc' = "saved"
  /\ UNCHANGED <<columns_arg, columns, lines_read, rows, schema, output_file>>
  /\ UNCHANGED <<typeVars, pathVars, mainVars>>

ConvNext == GetColumns \/ ReadLine \/ EndOfFile \/ SaveSchemaFiles

SpecConv == ConvInit /\ [][ConvNext]_vars

(***************************************************************************)
(* SpecPath: get_safe_filepath, overwriting not authorised, called again   *)
(* and again on one initial path, a file being created at each result.     *)
(***************************************************************************)
PathInit ==
  /\ TypeIdle
  /\ ConvIdle
  /\ MainIdle
  /\ path_pc = "start"
  /\ initial_filepath \in InitialPaths
  /\ files \in FileSystems(initial_filepath)
  /\ is_candidate = TRUE
  /\ results = <<>>
  /\ reapplied = NoPath

\* a call of get_safe_filepath(initial_filepath, False, candidate)
CallSafe ==
  \E candidate \in BOOLEAN :
    /\ path_pc \in {"start", "created"}
    /\ Len(results) < MaxCalls
    /\ is_candidate' = candidate
    /\ results' = Append(results,
         get_safe_filepath(initial_filepath, FALSE, candidate, files))
    /\ reapplied' = NoPath
    /\ path_pc' = "returned"
    /\ UNCHANGED <<files, initial_filepath>>
    /\ UNCHANGED <<typeVars, convVars, mainVars>>

\* get_safe_filepath applied to its own result, the file system unchanged
Reapply ==
  /\ path_pc = "returned"
  /\ reapplied' = get_safe_filepath(results[Len(results)], FALSE, TRUE, files)
  /\ path_pc' = "reapplied"
  /\ UNCHANGED <<files, initial_filepath, is_candidate, results>>
  /\ UNCHANGED <<typeVars, convVars, mainVars>>

\* the caller opens the returned path for writing
CreateFile ==
  /\ path_pc \in {"returned", "reapplied"}
  /\ files' = files \cup { results[Len(results)] }
  /\ path_pc' = "created"
  /\ UNCHANGED <<initial_filepath, is_candidate, results, reapplied>>
  /\ UNCHANGED <<typeVars, convVars, mainVars>>

PathNext == CallSafe \/ Reapply \/ CreateFile

SpecPath == PathInit /\ [][PathNext]_vars

(***************************************************************************)
(* SpecMain: one run of main, on a source file or on a directory.  The     *)
(* columns are the default ones; SpecConv has the rows and the schema.     *)
(***************************************************************************)
MainInit ==
  /\ TypeIdle
  /\ ConvIdle
  /\ PathIdle
  /\ main_pc = "start"
  /\ args \in Args
  /\ is_wgs84 \in BOOLEAN
  /\ bad_rows \in { {}, {File_a_shp}, {File_b_shp} }
  /\ dirs \in { {Dir_s}, {Dir_s, Dir_o} }
  /\ \E existing \in ExistingOutputs : disk = InitialDisk(existing, dirs)
  /\ answer = "none"
  /\ remaining = {}
  /\ cur = NoFileInHand
  /\ written = << >>

\* is_supported_geofile, lines 263-268: gdal opens the file
is_supported_geofile(filepath) == filepath \in DOMAIN disk \cap GeoFiles

\* get_source_errors, lines 207-223: the source has an error
source_error(source_path, should_be_dir) ==
  \/ source_path = NoPath
  \/ ~exists(source_path, disk, dirs)
  \/ should_be_dir /\ source_path \in DOMAIN disk
  \/ ~should_be_dir /\ rstrip_slash(source_path) \in dirs
  \/ ~should_be_dir /\ ~is_supported_geofile(source_path)

\* get_arg_errors without the test of lines 175-179
option_error_no_reserved ==
  /\ args.output_directory # NoPath
  /\ ~(args.create_parents \/ exists(args.output_directory, disk, dirs))

\* get_arg_errors lines 175-185: a reserved option, or no output directory
option_error ==
  \/ \E option \in reserved_convert_options :
       contains(args.convert_options, option)
  \/ /\ args.output_directory # NoPath
     /\ ~(args.create_parents \/ exists(args.output_directory, disk, dirs))

\* get_output_file_args_errors line 302: the prompt is shown
must_prompt ==
  /\ args.output_filepath # NoPath
  /\ ~is_output_file_safe(args.output_filepath, args.force_overwrite,
                          existing_paths(disk, dirs))

\* get_output_file_args_errors lines 327-334
output_file_error ==
  /\ args.output_filepath # NoPath
  /\ ~must_prompt
  /\ ~(args.create_parents
        \/ exists(splitext(args.output_filepath)[1], disk, dirs))

\* get_arg_errors up to the prompt, and main lines 17-19
Validate ==
  /\ main_pc = "start"
  /\ main_pc' =
       IF source_error(args.source, args.extension # NoPath) \/ option_error
       THEN "exit_error"
       ELSE IF must_prompt THEN "prompt"
       ELSE IF output_file_error THEN "exit_error"
       ELSE "validated"
  /\ UNCHANGED <<args, is_wgs84, bad_rows, dirs, disk, answer, remaining, cur,
                 written>>
  /\ UNCHANGED <<typeVars, convVars, pathVars>>

\* one answer to the prompt, lines 311-326
Answer ==
  \E a \in {"1", "2", "3", "", "x"} :
    /\ main_pc = "prompt"
    /\ answer' = a
    /\ main_pc' = IF a \in {"1", "2"} THEN "validated"
                  ELSE IF a \in {"", "3"} THEN "exit_error"
                  ELSE "prompt"
    /\ UNCHANGED <<args, is_wgs84, bad_rows, dirs, disk, remaining, cur,
                   written>>
    /\ UNCHANGED <<typeVars, convVars, pathVars>>

\* create_missing_directories as main calls it, lines 21-26 and 365-371
dirs_after_create ==
  IF args.create_parents
     /\ (args.output_directory # NoPath \/ args.output_filepath # NoPath)
  THEN LET path0 == IF args.output_filepath # NoPath
                    THEN args.output_filepath ELSE args.output_directory
           is_dir == args.output_filepath = NoPath
           path == IF is_dir /\ ~endswith_slash(path0)
                   THEN path0 \o << "/" >> ELSE path0
       IN dirs \cup { dirname(path) }
  ELSE dirs

\* convert_all lines 449-453
target_extension ==
  IF startswith_dot(args.extension) THEN args.extension
  ELSE << "." >> \o args.extension

source_directory ==
  IF endswith_slash(args.source) THEN args.source
  ELSE args.source \o (args.source \o << "/" >>)

\* os.listdir(source_directory) of a directory that exists, and the files
\* of it the loop of lines 460-461 converts
listdir(directory) ==
  { basename(p) : p \in { q \in DOMAIN disk : q = directory \o basename(q) } }

matching_files ==
  { join(source_directory, file) :
      file \in { f \in listdir(source_directory) :
                   splitext(f)[2] = target_extension } }

\* main lines 21-48, and convert_all up to its loop
Setup ==
  /\ main_pc = "validated"
  /\ dirs' = dirs_after_create
  /\ IF args.extension # NoPath
     THEN IF rstrip_slash(source_directory) \in dirs'
          THEN /\ main_pc' = "loop"
               /\ remaining' = matching_files
               /\ UNCHANGED cur
          ELSE \* os.listdir raises FileNotFoundError
               /\ main_pc' = "crashed"
               /\ UNCHANGED <<remaining, cur>>
     ELSE /\ main_pc' = "single"
          /\ cur' = [ source |-> args.source,
                      output_filepath |->
                        IF args.output_filepath # NoPath
                        THEN get_safe_filepath(args.output_filepath,
                               args.force_overwrite, TRUE,
                               existing_paths(disk, dirs'))
                        ELSE NoPath,
                      temp_filepath |-> NoPath ]
          /\ UNCHANGED remaining
  /\ UNCHANGED <<args, is_wgs84, bad_rows, disk, answer, written>>
  /\ UNCHANGED <<typeVars, convVars, pathVars>>

\* the can_overwrite convert_to_ndjson and save_schema_files are given:
\* main passes force_overwrite, line 52 and 62; convert_all is called
\* without it, lines 33-41, and passes on its default False
can_overwrite == IF args.extension # NoPath THEN FALSE
                 ELSE args.force_overwrite

\* disk with content written to the file at path
write(fdisk, path, content) ==
  [ p \in DOMAIN fdisk \cup {path} |->
      IF p = path THEN content ELSE fdisk[p] ]

\* os.remove(path)
remove(fdisk, path) == [ p \in DOMAIN fdisk \ {path} |-> fdisk[p] ]

Written(path, kind, source) ==
  [ path |-> path, kind |-> kind, of |-> source,
    existed |-> path \in DOMAIN disk ]

\* convert_to_ndjson lines 677-695 on source_filepath: the output path,
\* and the intermediate file convert_to_wgs84_geojsonseq creates
convert_start(source_filepath, given_output_filepath) ==
  LET output_directory == IF args.extension # NoPath
                          THEN IF args.output_directory # NoPath
                               THEN args.output_directory
                               ELSE source_directory
                          ELSE args.output_directory
      paths == existing_paths(disk, dirs)
      output_filepath ==
        IF given_output_filepath # NoPath THEN given_output_filepath
        ELSE get_output_filepath(source_filepath, Ext_json, can_overwrite,
                                 output_directory, paths)
      needs_temp == args.convert_options # << >> \/ ~is_wgs84
      temp_filepath ==
        IF needs_temp
        THEN get_output_filepath(
               splitext(output_filepath)[1] \o Suffix_GeoJSONSeq,
               Ext_geojson, FALSE, output_directory, paths)
        ELSE NoPath
  IN /\ cur' = [ source |-> source_filepath,
                 output_filepath |-> output_filepath,
                 temp_filepath |-> temp_filepath ]
     /\ IF needs_temp
        THEN /\ disk' = write(disk, temp_filepath,
                              [kind |-> "geojsonseq", of |-> source_filepath])
             /\ written' = Append(written,
                  Written(temp_filepath, "geojsonseq", source_filepath))
        ELSE UNCHANGED <<disk, written>>
     /\ main_pc' = "streaming"

\* the call of convert_to_ndjson of main, lines 50-58, up to line 695
ConvertSingle ==
  /\ main_pc = "single"
  /\ convert_start(cur.source, cur.output_filepath)
  /\ UNCHANGED <<args, is_wgs84, bad_rows, dirs, answer, remaining>>
  /\ UNCHANGED <<typeVars, convVars, pathVars>>

\* one pass of the loop of convert_all, lines 460-472, up to line 695 of
\* convert_to_ndjson; os.listdir gives the files in any order
ConvertNext ==
  \E source_filepath \in remaining :
    /\ main_pc = "loop"
    /\ remaining' = remaining \ {source_filepath}
    /\ convert_start(source_filepath, NoPath)
    /\ UNCHANGED <<args, is_wgs84, bad_rows, dirs, answer>>
    /\ UNCHANGED <<typeVars, convVars, pathVars>>

\* the end of the loop of convert_all
LoopEnd ==
  /\ main_pc = "loop"
  /\ remaining = {}
  /\ main_pc' = "done"
  /\ UNCHANGED <<args, is_wgs84, bad_rows, dirs, disk, answer, remaining, cur,
                 written>>
  /\ UNCHANGED <<typeVars, convVars, pathVars>>

\* RowStream with os.remove(temp_filepath) whatever do_keep_geojsonseq is
RowStream_always_removes ==
  /\ main_pc = "streaming"
  /\ IF cur.source \in bad_rows
     THEN /\ main_pc' = "crashed"
          /\ UNCHANGED <<disk, written>>
     ELSE /\ main_pc' = "schemas"
          /\ LET d1 == write(disk, cur.output_filepath,
                             [kind |-> "ndjson", of |-> cur.source])
             IN disk' = IF cur.temp_filepath # NoPath
                        THEN remove(d1, cur.temp_filepath) ELSE d1
          /\ written' = Append(written,
               Written(cur.output_filepath, "ndjson", cur.source))
  /\ UNCHANGED <<args, is_wgs84, bad_rows, dirs, answer, remaining, cur>>
  /\ UNCHANGED <<typeVars, convVars, pathVars>>

\* convert_to_ndjson lines 697-701: geojson_to_ndjson, which raises or
\* writes the output file, and the removal of the intermediate file
RowStream ==
  /\ main_pc = "streaming"
  /\ IF cur.source \in bad_rows
     THEN /\ main_pc' = "crashed"
          /\ UNCHANGED <<disk, written>>
     ELSE /\ main_pc' = "schemas"
          /\ LET d1 == write(disk, cur.output_filepath,
                             [kind |-> "ndjson", of |-> cur.source])
             IN disk' = IF cur.temp_filepath # NoPath
                           /\ ~args.keep_geojsonseq
                        THEN remove(d1, cur.temp_filepath) ELSE d1
          /\ written' = Append(written,
               Written(cur.output_filepath, "ndjson", cur.source))
  /\ UNCHANGED <<args, is_wgs84, bad_rows, dirs, answer, remaining, cur>>
  /\ UNCHANGED <<typeVars, convVars, pathVars>>

\* SaveSchemas leaving the plaintext schema file unwritten
SaveSchemas_json_only ==
  /\ main_pc = "schemas"
  /\ IF args.skip_schemas
     THEN UNCHANGED <<disk, written>>
     ELSE LET path_root == splitext(cur.output_filepath)[1]
              json_filepath ==
                get_safe_filepath(path_root \o Suffix_SCHEMA_json,
                                  can_overwrite, TRUE,
                                  existing_paths(disk, dirs))
          IN /\ disk' = write(disk, json_filepath,
                              [kind |-> "schema_json", of |-> cur.source])
             /\ written' = Append(written,
                  Written(json_filepath, "schema_json", cur.source))
  /\ main_pc' = IF args.extension # NoPath THEN "loop" ELSE "done"
  /\ UNCHANGED <<args, is_wgs84, bad_rows, dirs, answer, remaining, cur>>
  /\ UNCHANGED <<typeVars, convVars, pathVars>>

\* main lines 60-62 and convert_all lines 474-476, with save_schema_files
SaveSchemas ==
  /\ main_pc = "schemas"
  /\ IF args.skip_schemas
     THEN UNCHANGED <<disk, written>>
     ELSE LET path_root == splitext(cur.output_filepath)[1]
              json_filepath ==
                get_safe_filepath(path_root \o Suffix_SCHEMA_json,
                                  can_overwrite, TRUE,
                                  existing_paths(disk, dirs))
              d1 == write(disk, json_filepath,
                          [kind |-> "schema_json", of |-> cur.source])
              plaintext_filepath ==
                get_safe_filepath(path_root \o Suffix_SCHEMA_txt,
                                  can_overwrite, TRUE,
                                  existing_paths(d1, dirs))
          IN /\ disk' = write(d1, plaintext_filepath,
                              [kind |-> "schema_txt", of |-> cur.source])
             /\ written' = written \o
                  << Written(json_filepath, "schema_json", cur.source),
                     Written(plaintext_filepath, "schema_txt", cur.source) >>
  /\ main_pc' = IF args.extension # NoPath THEN "loop" ELSE "done"
  /\ UNCHANGED <<args, is_wgs84, bad_rows, dirs, answer, remaining, cur>>
  /\ UNCHANGED <<typeVars, convVars, pathVars>>

MainNext ==
  \/ Validate \/ Answer \/ Setup \/ ConvertSingle \/ ConvertNext \/ LoopEnd
  \/ RowStream \/ SaveSchemas

SpecMain == MainInit /\ [][MainNext]_vars

(***************************************************************************)
(* Properties of the type inference.                                       *)
(***************************************************************************)
Kinds(s) == { s[i].kind : i \in 1..Len(s) }

\* the type the rule of the specification gives a sequence of values
RuleType(s) ==
  IF "str" \in Kinds(s) THEN "STRING"
  ELSE IF "float" \in Kinds(s) /\ Kinds(s) \subseteq {"float", "int", "NoneType"}
    THEN "FLOAT"
  ELSE IF "int" \in Kinds(s) /\ Kinds(s) \subseteq {"int", "NoneType"}
    THEN "INTEGER"
  ELSE IF "bool" \in Kinds(s) /\ Kinds(s) \subseteq {"bool", "NoneType"}
    THEN "BOOLEAN"
  ELSE "UNKNOWN"

\* C1: folding get_column_type over the values of a column gives STRING if
\* any value was a string, else FLOAT if any was a float and the others
\* integer or null, else INTEGER if every non-null value was an integer,
\* else BOOLEAN if every non-null value was a boolean, else UNKNOWN.
C1_FoldFollowsRule ==
  Len(seen) > 0 => col_type = RuleType(seen)

RECURSIVE FoldTypes(_, _)
\* get_column_type folded over s, starting from last_type
FoldTypes(s, last_type) ==
  IF s = <<>> THEN last_type
  ELSE FoldTypes(Tail(s), get_column_type(Head(s), last_type))

Permutations1(n) ==
  { f \in [1..n -> 1..n] : \A i, j \in 1..n : f[i] = f[j] => i = j }

\* C2: every permutation of a sequence of null, string, integer and float
\* values folds to the same column type.
C2_OrderIndependent ==
  Kinds(seen) \subseteq {"NoneType", "str", "int", "float"} =>
    \A f \in Permutations1(Len(seen)) :
      FoldTypes([i \in 1..Len(seen) |-> seen[f[i]]], NoType) = col_type

PopValues ==
  << [kind |-> "int",   repr |-> "5"],
     [kind |-> "float", repr |-> "7.5"],
     [kind |-> "str",   repr |-> "n/a"] >>

\* C3: a column classified STRING is still STRING after every later Record,
\* and the values 5, 7.5, "n/a" in that order give STRING.
C3_StringIsPermanent ==
  [][ /\ col_type = "STRING" => col_type' = "STRING"
      /\ seen' = PopValues => col_type' = "STRING" ]_vars

C3_Witness ==
  /\ Len(seen) = 4
  /\ SubSeq(seen, 1, 3) = PopValues
  /\ seen[4].kind # "str"
  /\ col_type = "STRING"

ConcreteTypes == {"STRING", "INTEGER", "FLOAT", "BOOLEAN"}

\* the BigQuery type of a non-null value
ConcreteTypeOf(value) ==
  CASE value.kind = "str"   -> "STRING"
    [] value.kind = "int"   -> "INTEGER"
    [] value.kind = "float" -> "FLOAT"
    [] value.kind = "bool"  -> "BOOLEAN"

\* C4: a null value leaves a concrete classification as it is, and a
\* non-null value replaces UNKNOWN by its own concrete type.
C4_NullNeverDowngrades ==
  [][ LET value == seen'[Len(seen')] IN
      /\ (col_type \in ConcreteTypes /\ value = None) => col_type' = col_type
      /\ (col_type = "UNKNOWN" /\ value # None) =>
            col_type' = ConcreteTypeOf(value) ]_vars

\* C5: FLOAT followed by an integer and INTEGER followed by a float both
\* give FLOAT.
C5_FloatAbsorbsInteger ==
  [][ LET value == seen'[Len(seen')] IN
      /\ (col_type = "FLOAT" /\ value.kind = "int") => col_type' = "FLOAT"
      /\ (col_type = "INTEGER" /\ value.kind = "float") => col_type' = "FLOAT"
    ]_vars

C5_Witness ==
  /\ Len(seen) = 3
  /\ seen[1].kind = "int" /\ seen[2].kind = "float" /\ seen[3].kind = "int"
  /\ col_type = "FLOAT"


(***************************************************************************)
(* Properties of the conversion.                                           *)
(***************************************************************************)
\* the names the configuration gives the geometry-derived columns
ConfiguredNames == { columns[k] : k \in DOMAIN columns \cap default_column_names }

\* the keys of the properties of the i-th line read
PropertyKeys(i) == DictKeys(properties_of(lines_read[i]))

\* a line read has a property of that name
IsPropertyName(name) == \E i \in 1..Len(lines_read) : name \in PropertyKeys(i)

\* the type the column policy gives the column of a key
FixedType(k) == IF k = "geometry" THEN "GEOGRAPHY" ELSE "STRING"

\* C6 as stated: in the returned schema the column named by key geometry is
\* GEOGRAPHY and the columns named by geojson and geojson_geometry are
\* STRING, whatever the Records contain.
C6_FixedTypes ==
  conv_pc = "done" =>
    \A k \in DOMAIN columns \cap default_column_names :
      DictGet(schema, columns[k]) = FixedType(k)

\* C6 amended: in the returned schema the columns named by geojson and
\* geojson_geometry are STRING, and the column named by geometry is
\* GEOGRAPHY unless geojson or geojson_geometry is given the same name (then
\* it is STRING), whatever the Records contain.
C6_FixedTypesDistinctNames ==
  conv_pc = "done" =>
    \A k \in DOMAIN columns \cap default_column_names :
      /\ columns[k] \in DictKeys(schema)
      /\ DictGet(schema, columns[k]) =
           IF \E other \in DOMAIN columns \cap {"geojson", "geojson_geometry"} :
                columns[other] = columns[k]
           THEN "STRING"
           ELSE FixedType(k)

\* a Record had a property named as the geometry column, which is GEOGRAPHY
C6_Witness ==
  /\ conv_pc = "done"
  /\ DOMAIN columns = {"geometry", "geojson"}
  /\ columns["geometry"] = "g" /\ columns["geojson"] = "geojson"
  /\ Len(rows) = 2
  /\ IsPropertyName("g")
  /\ DictGet(schema, "g") = "GEOGRAPHY"
  /\ DictGet(schema, "geojson") = "STRING"

\* the JSON text of a geometry of the model
GeometryText(g) ==
  IF g = None THEN "null"
  ELSE "{\"type\": \"Point\", \"coordinates\": [1, 2]}"

OnlyGeomJson ==
  /\ DOMAIN columns = {"geojson_geometry"}
  /\ columns["geojson_geometry"] = "geom_json"

\* C7: an array of column keys gives each its own name and an object its
\* names; every output row has a field under the configured name of each key
\* of the mapping and no field besides these and its Record's properties,
\* and the schema has the matching entries only; with the mapping
\* {geojson_geometry: geom_json} every row has the one geometry-derived
\* field geom_json, holding the geometry as JSON text, and the schema has
\* geom_json: STRING and no GEOGRAPHY entry.
C7_OnlyConfiguredColumns ==
  /\ conv_pc \in {"reading", "done"} =>
       /\ columns_arg.kind = "list" =>
            /\ DOMAIN columns = columns_arg.items \cap default_column_names
            /\ \A k \in DOMAIN columns : columns[k] = k
       /\ columns_arg.kind = "dict" => columns = columns_arg.items
       /\ Len(rows) = Len(lines_read)
       /\ \A i \in 1..Len(rows) :
            /\ DictKeys(rows[i]) = PropertyKeys(i) \cup ConfiguredNames
            /\ OnlyGeomJson =>
                 /\ DictKeys(rows[i]) \ PropertyKeys(i) = {"geom_json"}
                 /\ DictGet(rows[i], "geom_json") =
                      PyStr(GeometryText(
                        DictGet(lines_read[i].items, "geometry")))
  /\ conv_pc = "done" =>
       /\ output_file = rows
       /\ DictKeys(schema) =
            { name \in {"pop", "g"} : IsPropertyName(name) } \cup ConfiguredNames
       /\ OnlyGeomJson =>
            /\ DictGet(schema, "geom_json") = "STRING"
            /\ \A name \in DictKeys(schema) :
                 DictGet(schema, name) # "GEOGRAPHY"

C7_Witness ==
  /\ conv_pc = "done"
  /\ OnlyGeomJson
  /\ Len(output_file) = 2
  /\ DictGet(lines_read[1].items, "geometry") = Point
  /\ DictGet(lines_read[2].items, "geometry") = None
  /\ PropertyKeys(1) = {"pop", "g"}
  /\ DictGet(output_file[1], "geom_json") =
       PyStr("{\"type\": \"Point\", \"coordinates\": [1, 2]}")

(***************************************************************************)
(* Properties of the safe paths.                                           *)
(***************************************************************************)
\* the initial paths before their extension, and their extensions
RootOf(p) ==
  CASE p = << "a", ".", "j" >>                -> << "a" >>
    [] p = << "a" >>                          -> << "a" >>
    [] p = << ".", "a" >>                     -> << ".", "a" >>
    [] p = << "d", ".", "x", "/", "a" >>      -> << "d", ".", "x", "/", "a" >>
    [] p = << "a", "_", "0", "1", ".", "j" >> -> << "a", "_", "0", "1" >>

ExtensionOf(p) ==
  IF p \in { << "a", ".", "j" >>, << "a", "_", "0", "1", ".", "j" >> }
  THEN << ".", "j" >> ELSE << >>

\* n in decimal digits, at least two of them, for n < 1000
TwoDigits(n) ==
  LET d == DigitChars
      h == n \div 100
      t == (n \div 10) % 10
      u == n % 10
  IN IF h > 0 THEN << d[h + 1], d[t + 1], d[u + 1] >>
     ELSE << d[t + 1], d[u + 1] >>

\* the initial path with _NN before its extension
WithSuffix(n) ==
  RootOf(initial_filepath) \o << "_" >> \o TwoDigits(n)
    \o ExtensionOf(initial_filepath)

\* the largest suffix number a file system of the model can make necessary
MaxSuffix == 110

\* C8: the path returned exists not; it is the initial path when that is
\* free and a candidate, else the initial path with the suffix _NN of the
\* smallest NN >= 1 whose path is free, in two digits at least.
C8_SafePathIsFree ==
  path_pc = "returned" =>
    LET result == results[Len(results)] IN
    /\ result \notin files
    /\ IF is_candidate /\ initial_filepath \notin files
       THEN result = initial_filepath
       ELSE \E n \in 1..MaxSuffix :
              /\ result = WithSuffix(n)
              /\ \A m \in 1..(n - 1) : WithSuffix(m) \in files

\* the 100 first suffixes are taken, and the result is _101
C8_Witness ==
  /\ path_pc = "returned"
  /\ initial_filepath = << "a", ".", "j" >>
  /\ initial_filepath \in files
  /\ results[Len(results)] = << "a", "_", "1", "0", "1", ".", "j" >>

\* the suffix number of a result: 0 for the initial path itself
SuffixNumber(p) ==
  IF p = initial_filepath THEN 0
  ELSE CHOOSE n \in 1..MaxSuffix : p = WithSuffix(n)

\* a file was at the initial path before the first call: the calls create
\* files at their results only
Collided ==
  /\ initial_filepath \in files
  /\ \A i \in 1..Len(results) : results[i] # initial_filepath

\* C9: get_safe_filepath of its own result, on the same file system, is that
\* result; and the suffix numbers of the results of successive calls on one
\* colliding initial path, a file created at each, increase strictly.
C9_IdempotentAndIncreasing ==
  /\ path_pc = "reapplied" => reapplied = results[Len(results)]
  /\ Collided =>
       \A i, j \in 1..Len(results) :
         i < j => SuffixNumber(results[i]) < SuffixNumber(results[j])

C9_Witness ==
  /\ path_pc = "reapplied"
  /\ Len(results) = 3
  /\ initial_filepath = << "a", ".", "j" >>
  /\ results[1] = << "a", "_", "0", "2", ".", "j" >>
  /\ results[2] = << "a", "_", "0", "3", ".", "j" >>
  /\ results[3] = << "a", "_", "0", "5", ".", "j" >>
  /\ reapplied = results[3]
  /\ Collided

(***************************************************************************)
(* Properties of the runs of main.                                         *)
(***************************************************************************)
\* the path, without extension, the outputs of a source file are named after
TargetRoot(source_filepath) ==
  IF args.extension = NoPath /\ args.output_filepath # NoPath
  THEN << "o", "/", "x" >>
  ELSE (IF args.output_directory # NoPath THEN << "o", "/" >> ELSE << "s", "/" >>)
       \o (IF source_filepath = File_a_shp THEN << "a" >> ELSE << "b" >>)

\* the unsuffixed path of a file of that kind written for a source file
TargetPath(kind, source_filepath) ==
  TargetRoot(source_filepath) \o
    CASE kind = "ndjson"      -> << ".", "j", "s", "o", "n" >>
      [] kind = "schema_json" -> << "_", "S", "C", "H", "E", "M", "A", ".", "j", "s", "o", "n" >>
      [] kind = "schema_txt"  -> << "_", "S", "C", "H", "E", "M", "A", ".", "t", "x", "t" >>

OutputKinds == {"ndjson", "schema_json", "schema_txt"}

\* C10: with force_overwrite the NDJSON file and both schema files are
\* written to their unsuffixed target paths, files existing there or not,
\* for a single file and for every file of a directory.
C10_ForceOverwritesTargets ==
  args.force_overwrite =>
    \A i \in 1..Len(written) :
      written[i].kind \in OutputKinds =>
        written[i].path = TargetPath(written[i].kind, written[i].of)

\* C11: at the prompt for an existing output path, answer 1 writes the
\* NDJSON output to the suggested suffixed path and leaves the existing
\* file as it was, answer 2 writes it to the given output path, answer 3 or
\* an empty answer ends the run with nothing converted or written, and any
\* other answer repeats the prompt.
C11_PromptAnswerDecides ==
  /\ answer = "x" => main_pc = "prompt"
  /\ answer \in {"3", ""} => main_pc = "exit_error" /\ written = << >>
  /\ (answer = "1" /\ args.extension = NoPath) =>
       /\ disk[Out_x_json] = OldContent
       /\ \A i \in 1..Len(written) :
            written[i].kind = "ndjson" => written[i].path = << "o", "/", "x", "_", "0", "1", ".", "j", "s", "o", "n" >>
  /\ (answer = "2" /\ args.extension = NoPath) =>
       \A i \in 1..Len(written) :
         written[i].kind = "ndjson" => written[i].path = Out_x_json

\* the entry name:TYPE of the i-th column of the schema
SchemaEntry(i) ==
  characters[schema[i].key] \o <<":">> \o characters[schema[i].value]

\* the entries from the i-th on, a comma and a newline after each but the last
RECURSIVE EntriesFrom(_)
EntriesFrom(i) ==
  IF i > Len(schema) THEN <<>>
  ELSE IF i = Len(schema) THEN SchemaEntry(i)
  ELSE SchemaEntry(i) \o <<",", "\n">> \o EntriesFrom(i + 1)

\* C12: the plaintext schema file holds one name:TYPE entry per column of
\* the schema, in schema order, a comma and a newline after each entry but
\* the last and nothing after the last; it is empty for an empty schema; the
\* warning names the columns whose type is UNKNOWN and no other column.
C12_PlaintextSchema ==
  conv_pc = "saved" =>
    /\ schema_text = EntriesFrom(1)
    /\ schema = EmptyDict => schema_text = <<>>
    /\ { unknown_columns[i] : i \in 1..Len(unknown_columns) }
         = { schema[i].key : i \in { j \in 1..Len(schema) :
                                       schema[j].value = "UNKNOWN" } }
    /\ \A i, j \in 1..Len(unknown_columns) :
         i # j => unknown_columns[i] # unknown_columns[j]

C12_Witness ==
  /\ conv_pc = "saved"
  /\ schema = << [key |-> "pop", value |-> "UNKNOWN"],
                 [key |-> "g", value |-> "INTEGER"],
                 [key |-> "geometry", value |-> "GEOGRAPHY"] >>
  /\ schema_text = << "p", "o", "p", ":", "U", "N", "K", "N", "O", "W", "N" >> \o <<",", "\n">> \o << "g", ":", "I", "N", "T", "E", "G", "E", "R" >>
                     \o <<",", "\n">> \o << "g", "e", "o", "m", "e", "t", "r", "y", ":", "G", "E", "O", "G", "R", "A", "P", "H", "Y" >>
  /\ unknown_columns = << "pop" >>

\* the source argument is empty, names nothing that exists, or is of the
\* wrong kind: a file with --extension, a directory without it, or a file
\* gdal does not open
BadSource ==
  \/ args.source = << >>
  \/ args.source = << "s", "/", "m", ".", "s", "h", "p" >>
  \/ args.source = << "s", "/", "c", ".", "t", "x", "t" >>
  \/ args.source = << "s", "/", "a", ".", "s", "h", "p" >> /\ args.extension # NoPath
  \/ args.source \in { << "s" >>, << "s", "/" >> } /\ args.extension = NoPath

ReservedDirective ==
  args.convert_options \in { << "-", "f", " ", "x" >>, << "-", "o", "f", " ", "x" >>, << "-", "t", "_", "s", "r", "s", " ", "x" >> }

\* C13: with a reserved directive in convert_options, or a source path that
\* is empty, missing or of the wrong kind, the first step of the run is the
\* exit with the validation error, no directory created and no file written
\* or removed, and no step follows the exit.
C13_ValidationBeforeWork ==
  [][ /\ main_pc # "exit_error"
      /\ (BadSource \/ ReservedDirective) =>
           /\ main_pc = "start"
           /\ main_pc' = "exit_error"
           /\ dirs' = dirs /\ disk' = disk /\ written' = << >> ]_vars

C13_Witness ==
  /\ main_pc = "exit_error"
  /\ ReservedDirective
  /\ ~BadSource
  /\ args.create_parents
  /\ args.output_directory = Dir_o
  /\ Dir_o \notin dirs

\* C14: convert_to_ndjson creates the intermediate file before the
\* row-streaming pass, exactly when convert_options is given or the input
\* is not a WGS84 GeoJSONSeq file, at a path where no file existed; a
\* successful pass leaves it in place when do_keep_geojsonseq is set and
\* deleted otherwise, a failed pass leaves it in place, and no source file
\* is ever deleted.
C14_IntermediateFile ==
  [][ /\ (main_pc # "streaming" /\ main_pc' = "streaming") =>
           LET temp == cur'.temp_filepath
           IN /\ (temp # NoPath) <=>
                   (args.convert_options # << >> \/ ~is_wgs84)
              /\ temp # NoPath =>
                   /\ temp \notin DOMAIN disk
                   /\ temp \in DOMAIN disk'
                   /\ disk'[temp].kind = "geojsonseq"
              /\ temp = NoPath => disk' = disk
      /\ (main_pc = "streaming" /\ cur.temp_filepath # NoPath) =>
           /\ cur.temp_filepath \in DOMAIN disk
           /\ main_pc' = "schemas" =>
                (cur.temp_filepath \in DOMAIN disk' <=> args.keep_geojsonseq)
           /\ main_pc' = "crashed" => cur.temp_filepath \in DOMAIN disk'
      /\ \A p \in SourceFiles : p \in DOMAIN disk => p \in DOMAIN disk' ]_vars

C14_Witness ==
  /\ main_pc = "schemas"
  /\ args.force_overwrite
  /\ ~args.keep_geojsonseq
  /\ cur.source = File_a_shp
  /\ cur.temp_filepath = << "s", "/", "a", "_", "G", "e", "o", "J", "S", "O", "N", "S", "e", "q", "_", "0", "1", ".", "g", "e", "o", "j", "s", "o", "n" >>
  /\ cur.temp_filepath \notin DOMAIN disk
  /\ << "s", "/", "a", "_", "G", "e", "o", "J", "S", "O", "N", "S", "e", "q", ".", "g", "e", "o", "j", "s", "o", "n" >> \in DOMAIN disk
  /\ disk[<< "s", "/", "a", "_", "G", "e", "o", "J", "S", "O", "N", "S", "e", "q", ".", "g", "e", "o", "j", "s", "o", "n" >>] = OldContent
  /\ File_a_shp \in DOMAIN disk

\* the line is not a Record, or the Record has no geometry member while the
\* geometry or the geojson_geometry column is configured
Offending(line) ==
  \/ line = Malformed
  \/ /\ "geometry" \notin DictKeys(line.items)
     /\ DOMAIN columns \cap {"geometry", "geojson_geometry"} # {}

\* C15: a Record without geometry member while the geometry or the
\* geojson_geometry column is configured, or a malformed line, at any
\* position of the file, makes geojson_to_ndjson fail: no later line is
\* read, no schema is returned and the output file is left as it was; the
\* output file is written only once every line has been read without
\* failure.
C15_FailsWholeConversion ==
  [][ /\ conv_pc # "failed"
      /\ (conv_pc = "reading" /\ Len(lines_read') > Len(lines_read)) =>
           IF Offending(lines_read'[Len(lines_read')])
           THEN /\ conv_pc' = "failed"
                /\ output_file' = output_file
                /\ rows' = rows
           ELSE /\ conv_pc' = "reading"
                /\ output_file' = output_file
                /\ Len(rows') = Len(rows) + 1
      /\ conv_pc' \in {"done", "saved"} =>
           \A i \in 1..Len(lines_read) : ~Offending(lines_read[i]) ]_vars

C15_Witness ==
  /\ conv_pc = "failed"
  /\ output_file = "old content"
  /\ Len(lines_read) = 2
  /\ Len(rows) = 1
  /\ lines_read[2] # Malformed
  /\ "geometry" \notin DictKeys(lines_read[2].items)
  /\ DOMAIN columns = {"geojson_geometry"}

\* the file of the given kind written for a source file is in the log w and
\* still in place on the disk d
InPlace(source, kind, w, d) ==
  \E i \in 1..Len(w) :
    /\ w[i].of = source /\ w[i].kind = kind
    /\ w[i].path \in DOMAIN d
    /\ d[w[i].path] = [kind |-> kind, of |-> source]

\* the NDJSON output of a source file and, unless skip_schemas is set, its
\* two schema files are written and in place
OutputsInPlace(source, w, d) ==
  /\ InPlace(source, "ndjson", w, d)
  /\ ~args.skip_schemas =>
       /\ InPlace(source, "schema_json", w, d)
       /\ InPlace(source, "schema_txt", w, d)

\* the source files whose conversion has started
Started(w) == { w[i].of : i \in 1..Len(w) } \cup ({cur.source} \ {NoPath})

\* C16: in directory mode the files are converted one after another: when
\* the conversion of a file starts, the NDJSON output and, unless
\* skip_schemas is set, both schema files of every file started before it
\* are written; when the conversion of a file fails, nothing follows, no
\* output or schema file of that file has been written, and the outputs of
\* the files converted before it are in place.
C16_OneAfterAnother ==
  [][ args.extension # NoPath =>
        /\ main_pc # "crashed"
        /\ (main_pc = "loop" /\ main_pc' = "streaming") =>
             /\ cur'.source \notin Started(written)
             /\ \A source \in Started(written) :
                  OutputsInPlace(source, written, disk)
        /\ (main_pc = "streaming" /\ main_pc' = "crashed") =>
             /\ \A i \in 1..Len(written') :
                  written'[i].of = cur.source =>
                    written'[i].kind = "geojsonseq"
             /\ \A source \in Started(written) \ {cur.source} :
                  OutputsInPlace(source, written', disk') ]_vars

C16_Witness ==
  /\ main_pc = "crashed"
  /\ args.extension # NoPath
  /\ ~args.skip_schemas
  /\ cur.source = File_b_shp
  /\ OutputsInPlace(File_a_shp, written, disk)
  /\ \A i \in 1..Len(written) : written[i].of = File_b_shp =>
                                  written[i].kind = "geojsonseq"
  /\ \E i \in 1..Len(written) : written[i].of = File_b_shp

=============================================================================
